---- MODULE Spec2Model ----
(***************************************************************************)
(* Model of the log processing pipeline of src/main.py: the LogProcessor  *)
(* store (load_logs, load_logs_from_data, _should_include_log,            *)
(* generate_average_report), the ReportGenerator and the main() entry     *)
(* point.                                                                  *)
(*                                                                         *)
(* Python values are tagged records, so that a value of the wrong type is *)
(* a value the model can hold.  Strings that the code parses are kept as  *)
(* the parts the parser reads from them (a timestamp's written date, hour *)
(* and zone designator), and parsing is an operator on those parts.       *)
(* response_time values are counted in tenths of a second, and rendered   *)
(* averages in thousandths.                                                *)
(***************************************************************************)
EXTENDS Integers, Sequences, FiniteSets, TLC

VARIABLES fs, logs, call, stderr, flt, rep, run

vars == <<fs, logs, call, stderr, flt, rep, run>>

(***************************************************************************)
(* Bounds of the model.                                                    *)
(***************************************************************************)
\* calendar days a timestamp may be written on: 1..MaxDay
MaxDay == 2
\* lines held by the two log files together
MaxLines == 2
\* paths given to one load
MaxPaths == 2
\* records held by a store handed to the report
MaxLogs == 3

(***************************************************************************)
(* Values.                                                                 *)
(***************************************************************************)
\* dict.get() of a missing key, and JSON null: Python's None
None == [t |-> "none", form |-> "", day |-> 0, hour |-> 0, tz |-> "", off |-> 0, n |-> 0]

\* a number or a boolean found where a string was expected
Num(k) == [None EXCEPT !.t = "num", !.n = k]
Bool(k) == [None EXCEPT !.t = "bool", !.n = k]

\* a string; form is what a parser makes of it: "empty", "iso" (an ISO-8601
\* datetime written on `day` at `hour`, zone designator tz: "Z", "off" for a
\* numeric offset of `off` hours, "naive" for none), "date" (YYYY-MM-DD),
\* "garbage" (anything else)
Str(form, day, hour, tz, off) ==
    [t |-> "str", form |-> form, day |-> day, hour |-> hour, tz |-> tz, off |-> off, n |-> 0]

EmptyStr == Str("empty", 0, 0, "", 0)
Garbage == Str("garbage", 0, 0, "", 0)
DateStr(d) == Str("date", d, 0, "", 0)

\* Python truthiness, as `not timestamp` and `not date_filter` use it
Truthy(v) ==
    CASE v.t = "none" -> FALSE
      [] v.t = "str" -> v.form # "empty"
      [] v.t = "num" -> v.n # 0
      [] v.t = "bool" -> v.n # 0

Days == 1..MaxDay
Hours == {0, 12, 23}
Offsets == {-5, 0, 3}

IsoStrings ==
    {Str("iso", d, h, "Z", 0) : d \in Days, h \in Hours}
    \cup {Str("iso", d, h, "naive", 0) : d \in Days, h \in Hours}
    \cup {Str("iso", d, h, "off", o) : d \in Days, h \in Hours, o \in Offsets}

Timestamps ==
    IsoStrings \cup {None, EmptyStr, Garbage, Num(0), Num(5), Bool(0), Bool(1)}

DateFilters ==
    {None, EmptyStr, Garbage} \cup {DateStr(d) : d \in 0..(MaxDay + 1)}

\* url strings are sequences of code points
NoUrl == [t |-> "none", s |-> <<>>]
Url(s) == [t |-> "str", s |-> s]
UrlStrings == {<<>>, <<1>>, <<1, 2>>, <<2>>}
Urls == {NoUrl} \cup {Url(s) : s \in UrlStrings}

NoTime == [t |-> "none", n |-> 0]
Time(k) == [t |-> "num", n |-> k]
\* response_time in tenths of a second: 0.0, 0.1 and 0.3
Times == {NoTime, Time(0), Time(1), Time(3)}

LogEntry(ts, url, rt) == [ts |-> ts, url |-> url, rt |-> rt]

(***************************************************************************)
(* LogProcessor._should_include_log                                        *)
(***************************************************************************)
\* timestamp.replace("Z", "+00:00")
ReplaceZ(text) ==
    IF text.tz = "Z" THEN [text EXCEPT !.tz = "off", !.off = 0] ELSE text

\* datetime.fromisoformat: ValueError on a string that is no ISO datetime
\* (a "Z" designator is one fromisoformat did not read before Python 3.11,
\* and none reaches it here)
FromIsoFormat(text) ==
    IF text.form = "iso" /\ text.tz # "Z"
    THEN [ok |-> TRUE, day |-> text.day, hour |-> text.hour, tz |-> text.tz, off |-> text.off]
    ELSE [ok |-> FALSE, day |-> 0, hour |-> 0, tz |-> "", off |-> 0]

\* coarse mutation of DateOf: the date after conversion to UTC
DateOfInUtc(dt) ==
    IF dt.tz = "off" THEN (dt.day * 24 + dt.hour - dt.off) \div 24 ELSE dt.day

\* datetime.date(): the date as written, whatever the offset
DateOf(dt) == dt.day

\* datetime.strptime(date_filter, "%Y-%m-%d").date()
Strptime(text) ==
    IF text.form = "date" THEN [ok |-> TRUE, day |-> text.day]
    ELSE [ok |-> FALSE, day |-> 0]

\* the value returned, "True" or "False", or the exception that leaves the call
ShouldIncludeLog(log_entry, date_filter) ==
    IF ~Truthy(date_filter) THEN "True"
    ELSE LET timestamp == log_entry.ts IN
         IF ~Truthy(timestamp) THEN "False"
         ELSE IF timestamp.t # "str" THEN "AttributeError"
         ELSE LET log_date == FromIsoFormat(ReplaceZ(timestamp))
                  filter_date == Strptime(date_filter)
              IN  IF ~log_date.ok THEN "False"
                  ELSE IF ~filter_date.ok THEN "False"
                  ELSE IF DateOf(log_date) = filter_date.day THEN "True"
                  ELSE "False"

(***************************************************************************)
(* State shared by the specifications: what each leaves alone.             *)
(***************************************************************************)
NoCall == [op |-> "init", paths |-> <<>>, data |-> <<>>, filter |-> None, raised |-> FALSE]
NoFilterCall == [entry |-> LogEntry(None, NoUrl, NoTime), date_filter |-> None, outcome |-> "idle"]
NoReport == [op |-> "none", kind |-> "", rows |-> <<>>,
             result |-> [t |-> "none", text |-> "", headers |-> <<>>, rows |-> <<>>]]
NoRun == [pc |-> "idle", files |-> <<>>, date |-> None, report |-> "", loaded |-> FALSE,
          stdout |-> <<>>, exit |-> 0]

(***************************************************************************)
(* SpecFilter: _should_include_log applied to one entry and one filter.    *)
(***************************************************************************)
FilterEntries == {LogEntry(ts, Url(<<1>>), Time(1)) : ts \in Timestamps}

InitFilter ==
    /\ fs = <<>>
    /\ logs = <<>>
    /\ call = NoCall
    /\ stderr = <<>>
    /\ rep = NoReport
    /\ run = NoRun
    /\ \E e \in FilterEntries, f \in DateFilters :
          flt = [entry |-> e, date_filter |-> f, outcome |-> "pending"]

ApplyShouldInclude ==
    /\ flt.outcome = "pending"
    /\ flt' = [flt EXCEPT !.outcome = ShouldIncludeLog(flt.entry, flt.date_filter)]
    /\ UNCHANGED <<fs, logs, call, stderr, rep, run>>

SpecFilter == InitFilter /\ [][ApplyShouldInclude]_vars

(***************************************************************************)
(* Claims about _should_include_log (SpecFilter).                          *)
(***************************************************************************)
FilterDone == flt.outcome \in {"True", "False", "AttributeError"}

Parseable(ts) == ts.t = "str" /\ ts.form = "iso"

\* the calendar date of a parseable timestamp after conversion to UTC
UtcDay(ts) ==
    IF ts.tz = "naive" THEN ts.day
    ELSE (ts.day * 24 + ts.hour - (IF ts.tz = "Z" THEN 0 ELSE ts.off)) \div 24

\* C2, as claimed: with a date filter, a record with a parseable timestamp is
\* included iff the timestamp's calendar date taken in UTC equals the filter's
\* date; with no date filter every record is included.
C2_UtcDateEquality ==
    FilterDone =>
        /\ (flt.date_filter = None => flt.outcome = "True")
        /\ (Parseable(flt.entry.ts) /\ flt.date_filter.form = "date") =>
               (flt.outcome = "True" <=> UtcDay(flt.entry.ts) = flt.date_filter.day)

\* C2, amended: with a date filter, a record with a parseable timestamp is
\* included iff the calendar date written in the timestamp, in the timestamp's
\* own offset, equals the filter's date (and excluded without error
\* otherwise); with no date filter every record is included.
C2_WrittenDateEquality ==
    FilterDone =>
        /\ (flt.date_filter = None => flt.outcome = "True")
        /\ (Parseable(flt.entry.ts) /\ flt.date_filter.form = "date") =>
               /\ flt.outcome \in {"True", "False"}
               /\ flt.outcome = "True" <=> flt.entry.ts.day = flt.date_filter.day

\* C2 witness: a record was included whose written date is the filter's date
\* and whose UTC date is another day.
C2_Witness ==
    /\ flt.outcome = "True"
    /\ Parseable(flt.entry.ts)
    /\ flt.date_filter.form = "date"
    /\ flt.entry.ts.tz = "off"
    /\ UtcDay(flt.entry.ts) # flt.entry.ts.day

Unparseable(ts) ==
    \/ ts.t \in {"none", "num", "bool"}
    \/ ts.t = "str" /\ ts.form \in {"empty", "garbage"}

\* C3, as claimed: with a date filter, a record whose @timestamp is absent,
\* empty, not an ISO-8601 datetime or not a string at all is excluded: the
\* predicate returns false and raises nothing.
C3_UnparseableExcluded ==
    (FilterDone /\ Truthy(flt.date_filter) /\ Unparseable(flt.entry.ts)) =>
        flt.outcome = "False"

(***************************************************************************)
(* LogProcessor.generate_average_report                                    *)
(***************************************************************************)
\* `if url`: a string that is not empty
UrlTruthy(url) == url.t = "str" /\ Len(url.s) > 0

\* a variant of Contributes with a plausible fault: `and response_time`
\* in place of `and response_time is not None`
ContributesIfTruthy(log) ==
    UrlTruthy(log.url) /\ log.rt.t # "none" /\ log.rt.n # 0

\* `if url and response_time is not None`
Contributes(log) == UrlTruthy(log.url) /\ log.rt.t # "none"

\* index of url among the keys of the dict, 0 when it is no key yet
RECURSIVE KeyIndex(_, _, _)
KeyIndex(stats, url, i) ==
    IF i > Len(stats) THEN 0
    ELSE IF stats[i].url = url THEN i
    ELSE KeyIndex(stats, url, i + 1)

\* endpoint_stats[url]["count"] += 1; endpoint_stats[url]["total_time"] += rt
\* on a defaultdict, which keeps its keys in the order of their first use
AddTo(stats, url, response_time) ==
    LET i == KeyIndex(stats, url, 1) IN
    IF i = 0
    THEN Append(stats, [url |-> url, count |-> 1, total_time |-> response_time])
    ELSE [stats EXCEPT ![i] = [url |-> url, count |-> @.count + 1,
                               total_time |-> @.total_time + response_time]]

\* the loop over self.logs
RECURSIVE Accumulate(_, _, _)
Accumulate(store, i, stats) ==
    IF i > Len(store) THEN stats
    ELSE Accumulate(store, i + 1,
                    IF Contributes(store[i])
                    THEN AddTo(stats, store[i].url.s, store[i].rt.n)
                    ELSE stats)

\* str < str: code point by code point, a proper prefix first
RECURSIVE LexLess(_, _)
LexLess(a, b) ==
    IF Len(b) = 0 THEN FALSE
    ELSE IF Len(a) = 0 THEN TRUE
    ELSE IF Head(a) # Head(b) THEN Head(a) < Head(b)
    ELSE LexLess(Tail(a), Tail(b))

RECURSIVE Insert(_, _)
Insert(item, sorted) ==
    IF sorted = <<>> THEN <<item>>
    ELSE IF LexLess(item.url, Head(sorted).url) THEN <<item>> \o sorted
    ELSE <<Head(sorted)>> \o Insert(item, Tail(sorted))

RECURSIVE InsertAll(_, _)
InsertAll(items, sorted) ==
    IF items = <<>> THEN sorted
    ELSE InsertAll(Tail(items), Insert(Head(items), sorted))

\* a variant of SortedItems with a plausible fault: the items in dict order
UnsortedItems(stats) == stats

\* sorted(endpoint_stats.items()): the keys are distinct, so the url alone orders
SortedItems(stats) == InsertAll(stats, <<>>)

\* a variant of FormatFixed3 with a plausible fault: truncation
FormatTruncated3(num, den) ==
    LET q == (num * 100) \div den
    IN  [int |-> q \div 1000, frac |-> <<(q \div 100) % 10, (q \div 10) % 10, q % 10>>]

\* f"{avg_time:.3f}" of avg_time = num / den tenths of a second: the nearest
\* thousandth, a tie going to the even one; the integer part and three digits
FormatFixed3(num, den) ==
    LET scaled == num * 100
        q == scaled \div den
        r == scaled % den
        m == IF 2 * r > den \/ (2 * r = den /\ q % 2 = 1) THEN q + 1 ELSE q
    IN  [int |-> m \div 1000, frac |-> <<(m \div 100) % 10, (m \div 10) % 10, m % 10>>]

\* rows.append([url, stats["count"], f"{avg_time:.3f}"])
Row(item) ==
    [url |-> item.url, count |-> item.count,
     avg |-> FormatFixed3(item.total_time, item.count)]

GenerateAverageReport(store) ==
    LET items == SortedItems(Accumulate(store, 1, <<>>))
    IN  [i \in 1..Len(items) |-> Row(items[i])]

(***************************************************************************)
(* ReportGenerator.generate_report                                         *)
(***************************************************************************)
NoDataText == "No data found for the specified criteria."
Headers == <<"handler", "total", "avg_response_time">>

\* tabulate.tabulate(rows, headers=headers, tablefmt="grid"): the grid, kept
\* as its header row and its rows
Tabulate(rows, headers) == [t |-> "table", text |-> "", headers |-> headers, rows |-> rows]

NoReportSignal == [t |-> "none", text |-> "", headers |-> <<>>, rows |-> <<>>]
Text(s) == [t |-> "str", text |-> s, headers |-> <<>>, rows |-> <<>>]

\* a variant of GenerateReport with a plausible fault: the no-data text for
\* any report type
GenerateReportAnyType(store, report_type) ==
    LET rows == GenerateAverageReport(store)
    IN  IF rows = <<>> THEN Text(NoDataText) ELSE Tabulate(rows, Headers)

GenerateReport(store, report_type) ==
    IF report_type = "average"
    THEN LET rows == GenerateAverageReport(store)
         IN  IF rows = <<>> THEN Text(NoDataText) ELSE Tabulate(rows, Headers)
    ELSE NoReportSignal

(***************************************************************************)
(* SpecReport: the report operations on a store of any content.            *)
(***************************************************************************)
RECURSIVE SeqsUpTo(_, _)
SeqsUpTo(S, n) ==
    IF n = 0 THEN {<<>>}
    ELSE LET shorter == SeqsUpTo(S, n - 1)
         IN  shorter \cup {Append(q, x) : q \in shorter, x \in S}

ReportEntries == {LogEntry(None, u, rt) : u \in Urls, rt \in Times}
ReportTypes == {"average", "unknown"}

InitReport ==
    /\ fs = <<>>
    /\ logs \in SeqsUpTo(ReportEntries, MaxLogs)
    /\ call = NoCall
    /\ stderr = <<>>
    /\ flt = NoFilterCall
    /\ rep = NoReport
    /\ run = NoRun

CallGenerateAverageReport ==
    /\ rep' = [op |-> "generate_average_report", kind |-> "",
               rows |-> GenerateAverageReport(logs), result |-> NoReportSignal]
    /\ UNCHANGED <<fs, logs, call, stderr, flt, run>>

CallGenerateReport ==
    \E report_type \in ReportTypes :
        /\ rep' = [op |-> "generate_report", kind |-> report_type,
                   rows |-> <<>>, result |-> GenerateReport(logs, report_type)]
        /\ UNCHANGED <<fs, logs, call, stderr, flt, run>>

NextReport == CallGenerateAverageReport \/ CallGenerateReport

SpecReport == InitReport /\ [][NextReport]_vars

(***************************************************************************)
(* Claims about the report operations (SpecReport).                        *)
(***************************************************************************)
StatsDone == rep.op = "generate_average_report"

\* the stored records that have url string s and a response_time
Contributors(s) ==
    {j \in 1..Len(logs) :
        logs[j].url.t = "str" /\ logs[j].url.s = s /\ logs[j].rt.t # "none"}

RowUrls == {rep.rows[i].url : i \in 1..Len(rep.rows)}

\* C5: generate_average_report returns a row for a url iff some stored record
\* has that non-empty url and a non-null response_time; the row's count is
\* the number of such records; a store with no such record gives no rows.
C5_RowsAndCounts ==
    StatsDone =>
        /\ \A s \in UrlStrings \cup RowUrls :
              (s \in RowUrls) <=> (s # <<>> /\ Contributors(s) # {})
        /\ \A i \in 1..Len(rep.rows) :
              rep.rows[i].count = Cardinality(Contributors(rep.rows[i].url))
        /\ (\A j \in 1..Len(logs) : logs[j].url.s = <<>> \/ logs[j].rt.t = "none")
              => rep.rows = <<>>

\* C5 witness: rows were returned from a store that holds a record with
\* response_time 0, which counts, and records missing a field, which do not.
C5_Witness ==
    /\ StatsDone
    /\ Len(rep.rows) >= 1
    /\ \E j \in 1..Len(logs) : logs[j].rt = Time(0) /\ logs[j].url = Url(<<1>>)
    /\ \E j \in 1..Len(logs) : logs[j].rt = NoTime /\ logs[j].url = Url(<<2>>)
    /\ \E j \in 1..Len(logs) : logs[j].url = NoUrl /\ logs[j].rt = Time(1)

RECURSIVE SumTimes(_)
SumTimes(J) ==
    IF J = {} THEN 0
    ELSE LET j == CHOOSE x \in J : TRUE IN logs[j].rt.n + SumTimes(J \ {j})

\* the rendered average, in thousandths of a second
Thousandths(avg) == avg.int * 1000 + avg.frac[1] * 100 + avg.frac[2] * 10 + avg.frac[3]

ScenarioA == <<LogEntry(None, Url(<<1>>), Time(1)), LogEntry(None, Url(<<1>>), Time(3))>>

\* C6: each row's average is the sum of its url's response times divided by
\* their count, rendered with exactly three decimal digits: the thousandth
\* nearest to the quotient.  Response times 0.1 and 0.3 give count 2 and 0.200.
C6_AverageRendered ==
    StatsDone =>
        /\ \A i \in 1..Len(rep.rows) :
              LET J == Contributors(rep.rows[i].url)
                  avg == rep.rows[i].avg
              IN  /\ J # {}
                  /\ Len(avg.frac) = 3
                  /\ \A k \in 1..3 : avg.frac[k] \in 0..9
                  /\ avg.int >= 0
                  \* |avg - sum / count| <= 0.0005, times in tenths
                  /\ 2 * (Thousandths(avg) * Cardinality(J) - 100 * SumTimes(J))
                        <= Cardinality(J)
                  /\ 2 * (100 * SumTimes(J) - Thousandths(avg) * Cardinality(J))
                        <= Cardinality(J)
        /\ logs = ScenarioA =>
              rep.rows = <<[url |-> <<1>>, count |-> 2,
                            avg |-> [int |-> 0, frac |-> <<2, 0, 0>>]]>>

\* C6 witness: three records of one url averaged to a value that had to be
\* rounded up, 0.2 / 3 rendered 0.067.
C6_Witness ==
    /\ StatsDone
    /\ \E i \in 1..Len(rep.rows) :
          /\ rep.rows[i].count = 3
          /\ rep.rows[i].avg = [int |-> 0, frac |-> <<0, 6, 7>>]

\* a before b in lexicographic order of code points
Before(a, b) ==
    \E k \in 1..(Len(b)) :
        /\ k <= Len(a) + 1
        /\ \A m \in 1..(k - 1) : a[m] = b[m]
        /\ (k = Len(a) + 1 \/ a[k] < b[k])

\* C7: the rows are in strictly ascending lexicographic order of url, one row
\* per distinct url, whatever the order of the stored records.
C7_RowsSorted ==
    StatsDone =>
        /\ \A i, j \in 1..Len(rep.rows) :
              i < j => Before(rep.rows[i].url, rep.rows[j].url)
        /\ Cardinality(RowUrls) = Len(rep.rows)

\* C7 witness: the store held its urls in descending order, one of them
\* twice, and two rows came out.
C7_Witness ==
    /\ StatsDone
    /\ Len(rep.rows) = 2
    /\ Len(logs) = 3
    /\ logs[1].url = Url(<<2>>)
    /\ logs[2].url = Url(<<1, 2>>)
    /\ logs[3].url = Url(<<2>>)

ReportDone == rep.op = "generate_report"

\* C9: generate_report returns the no-report signal iff the report type is
\* not "average"; for "average" it returns text: the no-data sentence exactly
\* when there are no rows, otherwise a table headed handler, total,
\* avg_response_time holding the rows.
C9_ReportKinds ==
    ReportDone =>
        /\ rep.result.t = "none" <=> rep.kind # "average"
        /\ rep.kind = "average" =>
              LET rows == GenerateAverageReport(logs) IN
              /\ rep.result.t \in {"str", "table"}
              /\ rep.result.t = "str" <=> rows = <<>>
              /\ rep.result.t = "str" => rep.result.text = NoDataText
              /\ rep.result.t = "table" =>
                    /\ rep.result.headers = <<"handler", "total", "avg_response_time">>
                    /\ rep.result.rows = rows

\* C9 witness: an unknown report type asked of a store with nothing to
\* aggregate gave the no-report signal, not the no-data sentence.
C9_Witness ==
    /\ ReportDone
    /\ rep.kind = "unknown"
    /\ rep.result = NoReportSignal
    /\ Len(logs) >= 1
    /\ GenerateAverageReport(logs) = <<>>

(***************************************************************************)
(* The file system: what load_logs finds at each path.                     *)
(***************************************************************************)
Paths == {"a.log", "b.log"}

\* the records of the log files: written on day 1, written on day 2, and one
\* whose @timestamp is a number
EntryA == LogEntry(Str("iso", 1, 12, "Z", 0), Url(<<1>>), Time(1))
EntryB == LogEntry(Str("iso", 2, 12, "off", 0), Url(<<2>>), Time(3))
EntryN == LogEntry(Num(5), Url(<<1, 2>>), Time(1))
FileEntries == {EntryA, EntryB, EntryN}

\* json.dumps(entry) on a line of its own
JsonLine(entry) == [kind |-> "json", entry |-> entry]
BlankLine == [kind |-> "blank", entry |-> LogEntry(None, NoUrl, NoTime)]
MalformedLine == [kind |-> "malformed", entry |-> LogEntry(None, NoUrl, NoTime)]
Lines == {BlankLine, MalformedLine} \cup {JsonLine(e) : e \in FileEntries}

\* a path that is no file, one that exists and cannot be opened, a file
Missing == [state |-> "missing", lines |-> <<>>]
Unreadable == [state |-> "unreadable", lines |-> <<>>]
File(lines) == [state |-> "file", lines |-> lines]
Files == {Missing, Unreadable} \cup {File(l) : l \in SeqsUpTo(Lines, MaxLines)}

FileSystems ==
    {f \in [Paths -> Files] : Len(f["a.log"].lines) + Len(f["b.log"].lines) <= MaxLines}

PathLists == SeqsUpTo(Paths, MaxPaths)
LoadFilters == {None} \cup {DateStr(d) : d \in Days}

(***************************************************************************)
(* LogProcessor.load_logs                                                  *)
(***************************************************************************)
Diag(kind, path, line_num) == [kind |-> kind, path |-> path, line |-> line_num]

\* json.loads(line): JSONDecodeError on a line that is no JSON
JsonLoads(line) ==
    IF line.kind = "json" THEN [ok |-> TRUE, entry |-> line.entry]
    ELSE [ok |-> FALSE, entry |-> line.entry]

\* the loop over the lines of one open file; st is the store and the error
\* stream so far.  An exception of _should_include_log is no JSONDecodeError:
\* it leaves the loop and is caught around the file.
RECURSIVE ReadLines(_, _, _, _, _)
ReadLines(path, lines, line_num, date_filter, st) ==
    IF line_num > Len(lines) THEN st
    ELSE LET line == lines[line_num] IN
         IF line.kind = "blank"
         THEN ReadLines(path, lines, line_num + 1, date_filter, st)
         ELSE LET parsed == JsonLoads(line) IN
              IF ~parsed.ok
              THEN ReadLines(path, lines, line_num + 1, date_filter,
                     [st EXCEPT !.stderr = Append(@, Diag("invalid_json", path, line_num))])
              ELSE LET include == ShouldIncludeLog(parsed.entry, date_filter) IN
                   IF include = "True"
                   THEN ReadLines(path, lines, line_num + 1, date_filter,
                          [st EXCEPT !.logs = Append(@, parsed.entry)])
                   ELSE IF include = "False"
                   THEN ReadLines(path, lines, line_num + 1, date_filter, st)
                   ELSE [st EXCEPT !.stderr = Append(@, Diag("error_reading", path, 0))]

\* the loop over file_paths
RECURSIVE ReadFiles(_, _, _, _, _)
ReadFiles(disk, file_paths, k, date_filter, st) ==
    IF k > Len(file_paths) THEN st
    ELSE LET path == file_paths[k]
             file == disk[path]
         IN  ReadFiles(disk, file_paths, k + 1, date_filter,
               CASE file.state = "missing" ->
                      [st EXCEPT !.stderr = Append(@, Diag("does_not_exist", path, 0))]
                 [] file.state = "unreadable" ->
                      [st EXCEPT !.stderr = Append(@, Diag("error_reading", path, 0))]
                 [] file.state = "file" ->
                      ReadLines(path, file.lines, 1, date_filter, st))

\* self.logs = [] and the loops: the store and the diagnostics left behind
LoadLogs(disk, file_paths, date_filter) ==
    ReadFiles(disk, file_paths, 1, date_filter,
              [logs |-> <<>>, stderr |-> <<>>, raised |-> FALSE])

(***************************************************************************)
(* LogProcessor.load_logs_from_data                                        *)
(***************************************************************************)
\* nothing catches an exception of _should_include_log here: it leaves the
\* call, and the store keeps what was appended before it
RECURSIVE FilterData(_, _, _, _)
FilterData(log_data, i, date_filter, st) ==
    IF i > Len(log_data) THEN st
    ELSE LET include == ShouldIncludeLog(log_data[i], date_filter) IN
         IF include = "True"
         THEN FilterData(log_data, i + 1, date_filter,
                         [st EXCEPT !.logs = Append(@, log_data[i])])
         ELSE IF include = "False"
         THEN FilterData(log_data, i + 1, date_filter, st)
         ELSE [st EXCEPT !.raised = TRUE]

LoadLogsFromData(log_data, date_filter) ==
    FilterData(log_data, 1, date_filter,
               [logs |-> <<>>, stderr |-> <<>>, raised |-> FALSE])

(***************************************************************************)
(* Spec: one LogProcessor, loaded again and again from the files of a      *)
(* file system or from the records those files encode.                     *)
(***************************************************************************)
\* the records encoded by the JSON lines of a file
RECURSIVE EntriesOfLines(_)
EntriesOfLines(lines) ==
    IF lines = <<>> THEN <<>>
    ELSE (IF Head(lines).kind = "json" THEN <<Head(lines).entry>> ELSE <<>>)
         \o EntriesOfLines(Tail(lines))

\* the records encoded by the files at the paths, in the order of the paths
RECURSIVE EntriesOf(_, _)
EntriesOf(disk, file_paths) ==
    IF file_paths = <<>> THEN <<>>
    ELSE EntriesOfLines(disk[Head(file_paths)].lines)
         \o EntriesOf(disk, Tail(file_paths))

Init ==
    /\ fs \in FileSystems
    /\ logs = <<>>
    /\ call = NoCall
    /\ stderr = <<>>
    /\ flt = NoFilterCall
    /\ rep = NoReport
    /\ run = NoRun

CallLoadLogs ==
    \E file_paths \in PathLists, date_filter \in LoadFilters :
        LET st == LoadLogs(fs, file_paths, date_filter) IN
        /\ logs' = st.logs
        /\ stderr' = st.stderr
        /\ call' = [op |-> "load_logs", paths |-> file_paths,
                    data |-> EntriesOf(fs, file_paths),
                    filter |-> date_filter, raised |-> st.raised]
        /\ UNCHANGED <<fs, flt, rep, run>>

CallLoadLogsFromData ==
    \E file_paths \in PathLists, date_filter \in LoadFilters :
        LET log_data == EntriesOf(fs, file_paths)
            st == LoadLogsFromData(log_data, date_filter)
        IN  /\ logs' = st.logs
            /\ stderr' = st.stderr
            /\ call' = [op |-> "load_logs_from_data", paths |-> <<>>,
                        data |-> log_data,
                        filter |-> date_filter, raised |-> st.raised]
            /\ UNCHANGED <<fs, flt, rep, run>>

Next == CallLoadLogs \/ CallLoadLogsFromData

Spec == Init /\ [][Next]_vars

(***************************************************************************)
(* Claims about loading (Spec).                                            *)
(***************************************************************************)
Loaded == call.op \in {"load_logs", "load_logs_from_data"}

\* the records of data that a date filter lets through, in the order of data;
\* a record with an unusable @timestamp is one it does not let through
Passing(data, date_filter) ==
    SelectSeq(data, LAMBDA e :
        \/ ~Truthy(date_filter)
        \/ Parseable(e.ts) /\ date_filter.form = "date" /\ e.ts.day = date_filter.day)

\* C1, as claimed: after any load the store holds exactly the inputs of the most
\* recent call that pass its date filter, in input order, and nothing of an
\* earlier call.
C1_StoreIsLastLoad ==
    Loaded => logs = Passing(call.data, call.filter)

\* the part of C1 that every load keeps: what is stored comes from the most
\* recent call and passes its filter; each load starts from an empty store
StoredFromLastLoad ==
    Loaded =>
        /\ \A j \in 1..Len(logs) :
              \E i \in 1..Len(call.data) : call.data[i] = logs[j]
        /\ logs = Passing(logs, call.filter)
        /\ Len(logs) <= Len(Passing(call.data, call.filter))

\* C4, as claimed: load never raises, and every line of every readable file that
\* parses and passes the date filter is in the store afterwards, whatever
\* line or path failed before or after it.
C4_FailuresAreLocal ==
    call.op = "load_logs" =>
        /\ ~call.raised
        /\ \A k \in 1..Len(call.paths) :
              LET file == fs[call.paths[k]] IN
              \A i \in 1..Len(file.lines) :
                  (file.lines[i].kind = "json"
                     /\ Passing(<<file.lines[i].entry>>, call.filter) # <<>>)
                  => \E j \in 1..Len(logs) : logs[j] = file.lines[i].entry

\* C8, as claimed: load on files leaves the same store, and ends the same way
\* (returning or raising), as load_logs_from_data on the records the files
\* encode, with the same filter.
C8_FileAndDataAgree ==
    call.op = "load_logs" =>
        LET st == LoadLogsFromData(call.data, call.filter)
        IN  /\ logs = st.logs
            /\ call.raised = st.raised

(***************************************************************************)
(* main(): one run of the command line, step by step.                      *)
(***************************************************************************)
\* --file takes one path or more; --date may be left out, and may be given
\* any string; --report is any string
MainFiles == PathLists \ {<<>>}
MainDates == {None, EmptyStr, Garbage} \cup {DateStr(d) : d \in Days}

Fatal(kind) == Diag(kind, "", 0)
FatalKinds == {"invalid_date_format", "no_valid_entries", "unknown_report_type"}

InitMain ==
    /\ fs \in FileSystems
    /\ logs = <<>>
    /\ call = NoCall
    /\ stderr = <<>>
    /\ flt = NoFilterCall
    /\ rep = NoReport
    /\ \E files \in MainFiles, date \in MainDates, report \in ReportTypes :
          run = [pc |-> "start", files |-> files, date |-> date, report |-> report,
                 loaded |-> FALSE, stdout |-> <<>>, exit |-> 0]

\* a variant of MainValidateDate with a plausible fault: no validation
MainSkipValidation ==
    /\ run.pc = "start"
    /\ run' = [run EXCEPT !.pc = "validated"]
    /\ UNCHANGED <<fs, logs, call, stderr, flt, rep>>

\* if args.date: try strptime, on ValueError print and sys.exit(1)
MainValidateDate ==
    /\ run.pc = "start"
    /\ IF Truthy(run.date) /\ ~Strptime(run.date).ok
       THEN /\ stderr' = Append(stderr, Fatal("invalid_date_format"))
            /\ run' = [run EXCEPT !.pc = "exited", !.exit = 1]
       ELSE /\ run' = [run EXCEPT !.pc = "validated"]
            /\ UNCHANGED stderr
    /\ UNCHANGED <<fs, logs, call, flt, rep>>

\* processor = LogProcessor(); processor.load_logs(args.file, args.date)
MainLoad ==
    /\ run.pc = "validated"
    /\ LET st == LoadLogs(fs, run.files, run.date) IN
       /\ logs' = st.logs
       /\ stderr' = stderr \o st.stderr
       /\ call' = [op |-> "load_logs", paths |-> run.files,
                   data |-> EntriesOf(fs, run.files),
                   filter |-> run.date, raised |-> st.raised]
    /\ run' = [run EXCEPT !.pc = "loaded", !.loaded = TRUE]
    /\ UNCHANGED <<fs, flt, rep>>

\* if not processor.logs: print and sys.exit(1)
MainCheckLogs ==
    /\ run.pc = "loaded"
    /\ IF logs = <<>>
       THEN /\ stderr' = Append(stderr, Fatal("no_valid_entries"))
            /\ run' = [run EXCEPT !.pc = "exited", !.exit = 1]
       ELSE /\ run' = [run EXCEPT !.pc = "checked"]
            /\ UNCHANGED stderr
    /\ UNCHANGED <<fs, logs, call, flt, rep>>

\* report = generator.generate_report(args.report); None: print and
\* sys.exit(1); otherwise print(report)
MainReport ==
    /\ run.pc = "checked"
    /\ LET report == GenerateReport(logs, run.report) IN
       /\ rep' = [op |-> "generate_report", kind |-> run.report,
                  rows |-> <<>>, result |-> report]
       /\ IF report = NoReportSignal
          THEN /\ stderr' = Append(stderr, Fatal("unknown_report_type"))
               /\ run' = [run EXCEPT !.pc = "exited", !.exit = 1]
          ELSE /\ run' = [run EXCEPT !.pc = "exited", !.stdout = Append(@, report)]
               /\ UNCHANGED stderr
    /\ UNCHANGED <<fs, logs, call, flt>>

NextMain == MainValidateDate \/ MainLoad \/ MainCheckLogs \/ MainReport

SpecMain == InitMain /\ [][NextMain]_vars

(***************************************************************************)
(* Claims about main() (SpecMain).                                         *)
(***************************************************************************)
Exited == run.pc = "exited"

\* the run ended in a fatal error: a message on the error stream, a non-zero
\* exit, nothing on standard output
EndedFatal ==
    /\ run.exit # 0
    /\ run.stdout = <<>>
    /\ stderr # <<>>
    /\ stderr[Len(stderr)].kind \in FatalKinds

\* the run wrote the rendered report to standard output and exited with 0
EndedWithReport ==
    /\ run.exit = 0
    /\ run.stdout = <<GenerateReport(logs, "average")>>
    /\ \A i \in 1..Len(stderr) : stderr[i].kind \notin FatalKinds

\* C10, as claimed: a run ends in a fatal error if the --date string is not in
\* YYYY-MM-DD format, or no record survives the load, or the report type is
\* unknown; every other run writes the report and exits with 0; a --date
\* string not in the format never reaches the load.
C10_FatalOrReport ==
    LET bad_date == run.date.t = "str" /\ run.date.form # "date" IN
    /\ run.loaded => ~bad_date
    /\ Exited =>
          IF bad_date \/ logs = <<>> \/ run.report # "average"
          THEN EndedFatal
          ELSE EndedWithReport

\* C10, amended: as C10, where the --date strings that are fatal are the
\* non-empty ones not in YYYY-MM-DD format; an empty --date string is taken
\* as no date filter.
C10_FatalOrReportNonEmptyDate ==
    LET bad_date == Truthy(run.date) /\ run.date.form # "date" IN
    /\ run.loaded => ~bad_date
    /\ Exited =>
          IF bad_date \/ logs = <<>> \/ run.report # "average"
          THEN EndedFatal
          ELSE EndedWithReport

\* C10 witness: a run given a malformed date ended fatally without loading,
\* though its files hold records.
C10_Witness ==
    /\ Exited
    /\ run.date = Garbage
    /\ EndedFatal
    /\ ~run.loaded
    /\ EntriesOf(fs, run.files) # <<>>

====
